---------------------------- MODULE Spec2Model ----------------------------
(***************************************************************************)
(* Control plane of rfw (src/rfw/src/main.rs): the command line, the rule  *)
(* compiler that builds the CONFIG word, the GeoIP fetch, the CIDR parser  *)
(* and the loader of GEOIP_MAP, and the attach / shutdown sequence.        *)
(*                                                                         *)
(* Text is a sequence of one-character strings.  A u32 is a sequence of 32 *)
(* bits, most significant first (TLC's integers are 32-bit signed, so the  *)
(* masks of the parser are computed on bits, as the machine does).         *)
(***************************************************************************)
EXTENDS Integers, Sequences, FiniteSets, TLC

VARIABLES
    pc,               \* position of main()
    opt,              \* the command line (struct Opt)
    exit_error,       \* the error main() ended with, "none" otherwise
    target_countries, \* main: target_countries
    whitelist_mode,   \* main: whitelist_mode
    config_flags,     \* main: config_flags
    CONFIG,           \* slot 0 of the CONFIG array map
    config_writes,    \* number of config_map.set calls made
    remote,           \* what the GeoIP repository serves per country
    fetch_i,          \* fetch_multiple_geoip_data: loop index
    results,          \* fetch_multiple_geoip_data: results / geo_data_list
    fetch_warnings,   \* countries warned and skipped
    pos,              \* loader position <<country, rule, cidr>>
    GEOIP_MAP,        \* the LPM trie: key -> value
    loaded_count,     \* main: loaded_count
    insert_errors,    \* main: insert_errors
    insert_warnings,  \* individual "insert failed" warnings logged
    entry_log,        \* per CIDR entry visited: what the loader did
    attached,         \* the XDP program is attached to the interface
    ever_attached,    \* program.attach has succeeded at some point
    cidr,             \* parser harness: the input text
    parsed,           \* parser harness: parse_cidr_to_lpm(cidr)
    reparsed          \* parser harness: parse of the text of parsed

vars == <<pc, opt, exit_error, target_countries, whitelist_mode, config_flags,
          CONFIG, config_writes, remote, fetch_i, results, fetch_warnings, pos,
          GEOIP_MAP, loaded_count, insert_errors, insert_warnings, entry_log,
          attached, ever_attached, cidr, parsed, reparsed>>

mainVars == <<pc, opt, exit_error, target_countries, whitelist_mode,
              config_flags, CONFIG, config_writes, remote, fetch_i, results,
              fetch_warnings, pos, GEOIP_MAP, loaded_count, insert_errors,
              insert_warnings, entry_log, attached, ever_attached>>

cidrVars == <<cidr, parsed, reparsed>>

---------------------------------------------------------------------------
(* Text helpers.                                                           *)

Digits == <<"0", "1", "2", "3", "4", "5", "6", "7", "8", "9">>

IsDigit(c) == \E i \in 1..10 : Digits[i] = c

DigitVal(c) == (CHOOSE i \in 1..10 : Digits[i] = c) - 1

RECURSIVE SplitFrom(_, _, _)
\* str::split(sep): the pieces between separators, empty pieces included;
\* cur is the piece being collected.
SplitFrom(s, sep, cur) ==
    IF s = <<>> THEN <<cur>>
    ELSE IF Head(s) = sep THEN <<cur>> \o SplitFrom(Tail(s), sep, <<>>)
    ELSE SplitFrom(Tail(s), sep, Append(cur, Head(s)))

Split(s, sep) == SplitFrom(s, sep, <<>>)

RECURSIVE FormatNat(_)
\* Display of an unsigned integer: its decimal digits, no sign, no padding.
FormatNat(n) ==
    IF n < 10 THEN <<Digits[n + 1]>>
    ELSE Append(FormatNat(n \div 10), Digits[(n % 10) + 1])

---------------------------------------------------------------------------
(* Machine words.                                                          *)

RECURSIVE Pow2(_)
Pow2(n) == IF n = 0 THEN 1 ELSE 2 * Pow2(n - 1)

Zeros(n) == [i \in 1..n |-> 0]

\* byte as u32
ByteAsU32(b) == Zeros(24) \o [i \in 1..8 |-> (b \div Pow2(8 - i)) % 2]

\* The value of the byte at bits 8k+1 .. 8k+8 (k = 0 is the most significant).
ByteOf(x, k) ==
    LET RECURSIVE V(_)
        V(i) == IF i = 0 THEN 0 ELSE 2 * V(i - 1) + x[8 * k + i]
    IN  V(8)

\* x << n on 32 bits, 0 <= n < 32
Shl32(x, n) == [i \in 1..32 |-> IF i + n <= 32 THEN x[i + n] ELSE 0]

Or32(x, y) == [i \in 1..32 |-> IF x[i] = 1 \/ y[i] = 1 THEN 1 ELSE 0]

And32(x, y) == [i \in 1..32 |-> IF x[i] = 1 /\ y[i] = 1 THEN 1 ELSE 0]

Not32(x) == [i \in 1..32 |-> 1 - x[i]]

\* The four bytes of a u32, most significant first.
BytesOf(x) == <<ByteOf(x, 0), ByteOf(x, 1), ByteOf(x, 2), ByteOf(x, 3)>>

---------------------------------------------------------------------------
(* parse_cidr_to_lpm                                                       *)

None == [some |-> FALSE]

Some(v) == [some |-> TRUE, val |-> v]

U8_MAX == 255

U32_MAX_DIV10 == 429496729

U32_MAX_MOD10 == 5

RECURSIVE ParseDigits(_, _, _, _)
\* The digit loop of <uN as FromStr>::from_str: every character must be a
\* decimal digit, and acc * 10 + d must not exceed the type's maximum
\* maxDiv10 * 10 + maxMod10 (checked_mul / checked_add).
ParseDigits(s, acc, maxDiv10, maxMod10) ==
    IF s = <<>> THEN Some(acc)
    ELSE IF ~IsDigit(Head(s)) THEN None
    ELSE LET d == DigitVal(Head(s))
         IN  IF acc > maxDiv10 \/ (acc = maxDiv10 /\ d > maxMod10) THEN None
             ELSE ParseDigits(Tail(s), acc * 10 + d, maxDiv10, maxMod10)

\* <uN as FromStr>::from_str (part.parse::<u8>(), parts[1].parse()): empty
\* text is an error; one leading '+' is accepted and dropped (a lone sign is
\* an error); '-' is not a digit of an unsigned type.
ParseUnsigned(s, maxDiv10, maxMod10) ==
    IF s = <<>> THEN None
    ELSE IF Head(s) = "+"
         THEN IF Tail(s) = <<>> THEN None
              ELSE ParseDigits(Tail(s), 0, maxDiv10, maxMod10)
    ELSE ParseDigits(s, 0, maxDiv10, maxMod10)

ParseU8(s) == ParseUnsigned(s, U8_MAX \div 10, U8_MAX % 10)

ParseU32(s) == ParseUnsigned(s, U32_MAX_DIV10, U32_MAX_MOD10)

RECURSIVE FoldIp(_, _, _)
\* try_fold(0u32, |acc, (i, part)| part.parse::<u8>().ok()
\*                  .map(|byte| acc | ((byte as u32) << (24 - i * 8))))
\* i counts from 0; the first part that does not parse ends the fold.
FoldIp(ip_parts, i, acc) ==
    IF i = Len(ip_parts) THEN Some(acc)
    ELSE LET byte == ParseU8(ip_parts[i + 1])
         IN  IF ~byte.some THEN None
             ELSE FoldIp(ip_parts, i + 1,
                         Or32(acc, Shl32(ByteAsU32(byte.val), 24 - i * 8)))

\* let mask = if prefix_len == 0 { 0u32 } else { !0u32 << (32 - prefix_len) }
MaskMutOff(prefix_len) ==
    IF prefix_len = 0 THEN Zeros(32)
    ELSE Shl32(Not32(Zeros(32)), 33 - prefix_len)

Mask(prefix_len) ==
    IF prefix_len = 0 THEN Zeros(32)
    ELSE Shl32(Not32(Zeros(32)), 32 - prefix_len)

parse_cidr_to_lpm(text) ==
    LET parts == Split(text, "/")
    IN  IF Len(parts) # 2 THEN None
        ELSE LET ip_parts == Split(parts[1], ".")
             IN  IF Len(ip_parts) # 4 THEN None
                 ELSE LET ip         == FoldIp(ip_parts, 0, Zeros(32))
                          prefix_len == ParseU32(parts[2])
                      IN  IF ~ip.some THEN None
                          ELSE IF ~prefix_len.some THEN None
                          ELSE IF prefix_len.val > 32 THEN None
                          ELSE Some([ip  |-> And32(ip.val, Mask(prefix_len.val)),
                                     len |-> prefix_len.val])

---------------------------------------------------------------------------
(* Parser harness: parse_cidr_to_lpm applied to one text, and applied      *)
(* again to the text of what it returned.                                  *)

Pending == [pending |-> TRUE]

\* The text A.B.C.D/p of four bytes and a prefix length.
FormatCidr(bytes, p) ==
    FormatNat(bytes[1]) \o <<".">> \o FormatNat(bytes[2]) \o <<".">> \o
    FormatNat(bytes[3]) \o <<".">> \o FormatNat(bytes[4]) \o <<"/">> \o
    FormatNat(p)

RECURSIVE Join(_, _)
Join(pieces, sep) ==
    IF Len(pieces) = 0 THEN <<>>
    ELSE IF Len(pieces) = 1 THEN pieces[1]
    ELSE pieces[1] \o <<sep>> \o Join(Tail(pieces), sep)

ByteSamples == {0, 1, 128, 170, 255}

PrefixLens == 0..32

ValidInputs == {<<a, b, c, d, p>> : a \in ByteSamples, b \in ByteSamples,
                                    c \in ByteSamples, d \in ByteSamples,
                                    p \in PrefixLens}

\* Components and prefix lengths as they may be written in a document.
ByteTokens == {<<"0">>, <<"2", "5", "5">>, <<"2", "5", "6">>, <<"0", "0", "7">>,
               <<"0", "2", "5", "6">>, <<"+", "1">>, <<"-", "1">>, <<"+">>,
               <<>>, <<"1", "x">>, <<" ", "1">>, <<"1", "+">>}

PrefixTokens == {<<"0">>, <<"3", "2">>, <<"3", "3">>, <<"0", "3", "2">>,
                 <<"+", "8">>, <<"-", "8">>, <<"+">>, <<>>, <<"8", "x">>,
                 <<"9", "9", "9", "9", "9">>}

GoodByte == <<"1", "0">>

GoodPrefix == <<"8">>

RawInputs ==
    \* one component or the prefix length written freely
    {Join(<<Join(<<t, GoodByte, GoodByte, GoodByte>>, "."), q>>, "/") :
        t \in ByteTokens, q \in PrefixTokens}
    \cup {Join(<<Join(<<GoodByte, GoodByte, GoodByte, t>>, "."), q>>, "/") :
        t \in ByteTokens, q \in PrefixTokens}
    \* three or five components
    \cup {Join(<<Join(<<GoodByte, GoodByte, t>>, "."), GoodPrefix>>, "/") :
        t \in ByteTokens}
    \cup {Join(<<Join(<<GoodByte, GoodByte, GoodByte, GoodByte, t>>, "."),
                 GoodPrefix>>, "/") : t \in ByteTokens}
    \* no '/', or two
    \cup {Join(<<GoodByte, GoodByte, GoodByte, t>>, ".") : t \in ByteTokens}
    \cup {Join(<<Join(<<GoodByte, GoodByte, GoodByte, GoodByte>>, "."), q, q>>,
               "/") : q \in PrefixTokens}

MainIdle ==
    /\ pc = "idle"
    /\ opt = <<>>
    /\ exit_error = "none"
    /\ target_countries = <<>>
    /\ whitelist_mode = FALSE
    /\ config_flags = {}
    /\ CONFIG = {}
    /\ config_writes = 0
    /\ remote = <<>>
    /\ fetch_i = 0
    /\ results = <<>>
    /\ fetch_warnings = 0
    /\ pos = <<1, 1, 1>>
    /\ GEOIP_MAP = <<>>
    /\ loaded_count = 0
    /\ insert_errors = 0
    /\ insert_warnings = 0
    /\ entry_log = <<>>
    /\ attached = FALSE
    /\ ever_attached = FALSE

InitCidr ==
    /\ MainIdle
    /\ \/ \E v \in ValidInputs :
            cidr = [given |-> v,
                    text  |-> FormatCidr(<<v[1], v[2], v[3], v[4]>>, v[5])]
       \/ \E t \in RawInputs : cidr = [given |-> <<>>, text |-> t]
    /\ parsed = Pending
    /\ reparsed = Pending

ParseCidr ==
    /\ parsed = Pending
    /\ parsed' = parse_cidr_to_lpm(cidr.text)
    /\ UNCHANGED <<cidr, reparsed>>
    /\ UNCHANGED mainVars

ReparseCidr ==
    /\ parsed # Pending
    /\ parsed.some
    /\ reparsed = Pending
    /\ reparsed' = parse_cidr_to_lpm(FormatCidr(BytesOf(parsed.val.ip),
                                                parsed.val.len))
    /\ UNCHANGED <<cidr, parsed>>
    /\ UNCHANGED mainVars

NextCidr == ParseCidr \/ ReparseCidr

SpecCidr == InitCidr /\ [][NextCidr]_vars

\* The form A.B.C.D/p: exactly one '/', exactly four components between
\* dots, every component and p a non-empty run of decimal digits, the
\* components at most 255 and p at most 32.
AllDigits(s) == s # <<>> /\ \A i \in 1..Len(s) : IsDigit(s[i])

RECURSIVE DecimalValueCapped(_, _, _)
\* The number a run of digits writes, capped at cap + 1.
DecimalValueCapped(s, acc, cap) ==
    IF s = <<>> \/ acc > cap THEN (IF acc > cap THEN cap + 1 ELSE acc)
    ELSE DecimalValueCapped(Tail(s), acc * 10 + DigitVal(Head(s)), cap)

Count(s, c) == Cardinality({i \in 1..Len(s) : s[i] = c})

IsCidrForm(text) ==
    /\ Count(text, "/") = 1
    /\ LET slash == CHOOSE i \in 1..Len(text) : text[i] = "/"
           addr  == SubSeq(text, 1, slash - 1)
           plen  == SubSeq(text, slash + 1, Len(text))
           comps == Split(addr, ".")
       IN  /\ Count(addr, ".") = 3
           /\ \A k \in 1..Len(comps) :
                 AllDigits(comps[k]) /\ DecimalValueCapped(comps[k], 0, 255) <= 255
           /\ AllDigits(plen) /\ DecimalValueCapped(plen, 0, 32) <= 32

\* What the network address of a.b.c.d/p is, byte by byte: byte k (0 the
\* first) keeps its top min(8, max(0, p - 8k)) bits.
MaskedByte(x, k, p) ==
    LET keep == IF p - 8 * k >= 8 THEN 8 ELSE IF p - 8 * k <= 0 THEN 0 ELSE p - 8 * k
    IN  (x \div Pow2(8 - keep)) * Pow2(8 - keep)

ExpectedNet(v) == <<MaskedByte(v[1], 0, v[5]), MaskedByte(v[2], 1, v[5]),
                    MaskedByte(v[3], 2, v[5]), MaskedByte(v[4], 3, v[5])>>

\* C6: for every text A.B.C.D/p with A..D in [0,255] and p in [0,32],
\* parse_cidr_to_lpm returns Some((net, p)) with net the address with the
\* bits below the prefix cleared, net & mask(p) = net, 0 <= p <= 32, and
\* parsing the text of (net, p) again returns the same pair.
C6_CidrRoundTrip ==
    (cidr.given # <<>> /\ parsed # Pending) =>
        /\ parsed.some
        /\ parsed.val.len = cidr.given[5]
        /\ parsed.val.len >= 0 /\ parsed.val.len <= 32
        /\ BytesOf(parsed.val.ip) = ExpectedNet(cidr.given)
        /\ And32(parsed.val.ip, Mask(parsed.val.len)) = parsed.val.ip
        /\ (reparsed # Pending => reparsed = parsed)

\* A text with host bits set was parsed and its result parsed again.
C6_Witness ==
    /\ cidr.given # <<>>
    /\ reparsed # Pending
    /\ cidr.given[5] = 9
    /\ <<cidr.given[1], cidr.given[2], cidr.given[3], cidr.given[4]>>
           = <<170, 255, 1, 128>>
    /\ BytesOf(parsed.val.ip) = <<170, 128, 0, 0>>

\* Texts that are not of the form and carry no '+' are rejected.
RejectsUnsignedMalformed ==
    (cidr.given = <<>> /\ parsed # Pending /\ ~IsCidrForm(cidr.text)
        /\ Count(cidr.text, "+") = 0) => parsed = None

\* Texts of the form are accepted.
AcceptsCidrForm ==
    (parsed # Pending /\ IsCidrForm(cidr.text)) => parsed.some

---------------------------------------------------------------------------
(* The command line (struct Opt) and clap's conflict rules.                *)

MaxCountries == 2

Codes == {"CN", "ru"}

\* to_uppercase / to_lowercase on the country codes in use
ToUpper(code) == CASE code = "ru" -> "RU"
                   [] code = "cn" -> "CN"
                   [] OTHER -> code

ToLower(code) == CASE code = "CN" -> "cn"
                   [] code = "RU" -> "ru"
                   [] OTHER -> code

\* The lists a --countries style option can carry: up to MaxCountries
\* comma-separated codes (value_delimiter = ','), here alternating codes.
CountryLists ==
    {[i \in 1..n |-> IF i % 2 = 1 THEN c ELSE CHOOSE d \in Codes : d # c] :
        n \in 0..MaxCountries, c \in Codes}

ToggleNames == {"block_email", "block_http", "block_socks5", "block_fet_strict",
                "block_fet_loose", "block_wireguard", "block_quic", "block_all"}

MkOpt(countries, allow, from, on) ==
    [countries            |-> countries,
     allow_only_countries |-> allow,
     block_all_from       |-> from,
     block_email          |-> "block_email" \in on,
     block_http           |-> "block_http" \in on,
     block_socks5         |-> "block_socks5" \in on,
     block_fet_strict     |-> "block_fet_strict" \in on,
     block_fet_loose      |-> "block_fet_loose" \in on,
     block_wireguard      |-> "block_wireguard" \in on,
     block_quic           |-> "block_quic" \in on,
     block_all            |-> "block_all" \in on]

\* Every command line over the lists and the eight toggles.
AllOptions == {MkOpt(c, a, f, on) : c \in CountryLists, a \in CountryLists,
                                    f \in CountryLists, on \in SUBSET ToggleNames}

\* The command lines of the loader runs: one list given under any of the
\* three options, or the same list under two or three of them, with one
\* combination of toggles.
ToggleSamples == {{"block_http", "block_all"}}

OptionSamples ==
    {MkOpt(IF "c" \in given THEN l ELSE <<>>, IF "a" \in given THEN l ELSE <<>>,
           IF "f" \in given THEN l ELSE <<>>, on) :
        given \in SUBSET {"c", "a", "f"}, l \in CountryLists, on \in ToggleSamples}

\* clap: allow_only_countries conflicts_with countries, block_all_from
\* conflicts_with countries, block_fet_strict and block_fet_loose conflict
\* with each other.  An option is present when it was given a value.
ClapConflictMutNoFet(o) ==
    \/ o.allow_only_countries # <<>> /\ o.countries # <<>>
    \/ o.block_all_from # <<>> /\ o.countries # <<>>

ClapConflict(o) ==
    \/ o.allow_only_countries # <<>> /\ o.countries # <<>>
    \/ o.block_all_from # <<>> /\ o.countries # <<>>
    \/ o.block_fet_strict /\ o.block_fet_loose

---------------------------------------------------------------------------
(* The rule compiler: target countries, whitelist mode, the CONFIG word.   *)

\* The bits of rfw_common; config_flags is the set of bits that are set.
RULE_BLOCK_EMAIL      == "BLOCK_EMAIL"
RULE_BLOCK_HTTP       == "BLOCK_HTTP"
RULE_BLOCK_SOCKS5     == "BLOCK_SOCKS5"
RULE_BLOCK_FET_STRICT == "BLOCK_FET_STRICT"
RULE_BLOCK_FET_LOOSE  == "BLOCK_FET_LOOSE"
RULE_BLOCK_WIREGUARD  == "BLOCK_WIREGUARD"
RULE_BLOCK_QUIC       == "BLOCK_QUIC"
RULE_BLOCK_ALL        == "BLOCK_ALL"
RULE_GEOIP_ENABLED    == "GEOIP_ENABLED"
RULE_GEOIP_WHITELIST  == "GEOIP_WHITELIST"

\* if !block_all_from.is_empty() {..} else if !allow_only_countries.is_empty()
\* {..} else if !countries.is_empty() {..}
TargetCountries(o) ==
    IF o.block_all_from # <<>> THEN o.block_all_from
    ELSE IF o.allow_only_countries # <<>> THEN o.allow_only_countries
    ELSE IF o.countries # <<>> THEN o.countries
    ELSE <<>>

WhitelistMode(o) ==
    IF o.block_all_from # <<>> THEN FALSE
    ELSE o.allow_only_countries # <<>>

Bit(cond, flag) == IF cond THEN {flag} ELSE {}

\* config_flags |= ... for each rule that is on
ConfigFlagsMutCopyPaste(o, tc, wl) ==
    Bit(o.block_email, RULE_BLOCK_EMAIL)
    \cup Bit(tc # <<>>, RULE_GEOIP_ENABLED)
    \cup Bit(tc # <<>> /\ wl, RULE_GEOIP_WHITELIST)
    \cup Bit(o.block_http, RULE_BLOCK_HTTP)
    \cup Bit(o.block_socks5, RULE_BLOCK_SOCKS5)
    \cup Bit(o.block_fet_strict, RULE_BLOCK_FET_STRICT)
    \cup Bit(o.block_fet_loose, RULE_BLOCK_FET_LOOSE)
    \cup Bit(o.block_wireguard, RULE_BLOCK_QUIC)
    \cup Bit(o.block_quic, RULE_BLOCK_QUIC)
    \cup Bit(o.block_all, RULE_BLOCK_ALL)

ConfigFlags(o, tc, wl) ==
    Bit(o.block_email, RULE_BLOCK_EMAIL)
    \cup Bit(tc # <<>>, RULE_GEOIP_ENABLED)
    \cup Bit(tc # <<>> /\ wl, RULE_GEOIP_WHITELIST)
    \cup Bit(o.block_http, RULE_BLOCK_HTTP)
    \cup Bit(o.block_socks5, RULE_BLOCK_SOCKS5)
    \cup Bit(o.block_fet_strict, RULE_BLOCK_FET_STRICT)
    \cup Bit(o.block_fet_loose, RULE_BLOCK_FET_LOOSE)
    \cup Bit(o.block_wireguard, RULE_BLOCK_WIREGUARD)
    \cup Bit(o.block_quic, RULE_BLOCK_QUIC)
    \cup Bit(o.block_all, RULE_BLOCK_ALL)

---------------------------------------------------------------------------
(* The GeoIP repository and its documents {"rules": [{"ip_cidr": [..]}]}.  *)

Missing == [missing |-> TRUE]

Rule(texts) == [ip_cidr |-> texts]

\* one rule, three prefixes; the second names the network of the first
DocThree == [rules |-> <<Rule(<<<<"1", ".", "0", ".", "1", ".", "0", "/", "2", "4">>, <<"1", ".", "0", ".", "1", ".", "7", "7", "/", "2", "4">>, <<"1", "0", ".", "0", ".", "0", ".", "0", "/", "8">>>>)>>]

\* a malformed entry first, a rule without entries, a signed entry last
DocMixed == [rules |-> <<Rule(<<<<"1", ".", "0", ".", "1", "/", "2", "4">>, <<"2", ".", "0", ".", "0", ".", "0", "/", "8">>>>), Rule(<<>>), Rule(<<<<"+", "3", ".", "0", ".", "0", ".", "0", "/", "8">>>>)>>]

\* fetched, but no entry is a prefix
DocUnloadable == [rules |-> <<Rule(<<<<"3", "0", "0", ".", "0", ".", "0", ".", "0", "/", "8">>>>), Rule(<<<<"4", ".", "0", ".", "0", ".", "0", "/", "3", "3">>>>)>>]

DocEmpty == [rules |-> <<>>]

Documents == {DocThree, DocMixed, DocUnloadable, DocEmpty}

LowerCodes == {ToLower(c) : c \in Codes}

\* Every state of the repository: per country a document or nothing (404).
AllWorlds == [LowerCodes -> Documents \cup {Missing}]

\* The repository of the rule-compiler runs.
WorldSamples == {[c \in LowerCodes |-> IF c = "cn" THEN DocMixed ELSE Missing]}

---------------------------------------------------------------------------
(* main(): the order of its steps.                                         *)

MainStepsMutAttachFirst ==
    <<"parse_args", "load", "write_config", "attach", "fetch", "populate",
      "running", "exited">>

MainSteps ==
    <<"parse_args", "load", "write_config", "fetch", "populate", "attach",
      "running", "exited">>

IndexOf(step) == CHOOSE i \in 1..Len(MainSteps) : MainSteps[i] = step

RECURSIVE StepAfter(_, _)
\* The step main() takes after `step`; the GeoIP block (fetch, populate) is
\* skipped when target_countries is empty.
StepAfter(step, tc) ==
    LET nxt == MainSteps[IndexOf(step) + 1]
    IN  IF tc = <<>> /\ nxt \in {"fetch", "populate"} THEN StepAfter(nxt, tc)
        ELSE nxt

Fail(kind) ==
    /\ pc' = "failed"
    /\ exit_error' = kind

InitMain(options, worlds) ==
    /\ pc = "parse_args"
    /\ opt \in options
    /\ exit_error = "none"
    /\ target_countries = <<>>
    /\ whitelist_mode = FALSE
    /\ config_flags = {}
    /\ CONFIG = {}
    /\ config_writes = 0
    /\ remote \in worlds
    /\ fetch_i = 0
    /\ results = <<>>
    /\ fetch_warnings = 0
    /\ pos = <<1, 1, 1>>
    /\ GEOIP_MAP = <<>>
    /\ loaded_count = 0
    /\ insert_errors = 0
    /\ insert_warnings = 0
    /\ entry_log = <<>>
    /\ attached = FALSE
    /\ ever_attached = FALSE
    /\ cidr = [given |-> <<>>, text |-> <<>>]
    /\ parsed = Pending
    /\ reparsed = Pending

\* Opt::parse(): clap ends the process on a conflict.
ParseArgsConflict ==
    /\ pc = "parse_args"
    /\ ClapConflict(opt)
    /\ Fail("ConfigConflict")
    /\ UNCHANGED <<opt, target_countries, whitelist_mode, config_flags, CONFIG,
                   config_writes, remote, fetch_i, results, fetch_warnings, pos,
                   GEOIP_MAP, loaded_count, insert_errors, insert_warnings,
                   entry_log, attached, ever_attached>>
    /\ UNCHANGED cidrVars

\* Opt::parse() accepted; the country lists are folded into target_countries
\* and whitelist_mode.
ParseArgs ==
    /\ pc = "parse_args"
    /\ ~ClapConflict(opt)
    /\ target_countries' = TargetCountries(opt)
    /\ whitelist_mode' = WhitelistMode(opt)
    /\ pc' = StepAfter("parse_args", TargetCountries(opt))
    /\ UNCHANGED <<opt, exit_error, config_flags, CONFIG, config_writes, remote,
                   fetch_i, results, fetch_warnings, pos, GEOIP_MAP,
                   loaded_count, insert_errors, insert_warnings, entry_log,
                   attached, ever_attached>>
    /\ UNCHANGED cidrVars

\* setrlimit, aya::Ebpf::load, EbpfLogger::init and the log-drain task
LoadEbpf ==
    /\ pc = "load"
    /\ pc' = StepAfter("load", target_countries)
    /\ UNCHANGED <<opt, exit_error, target_countries, whitelist_mode,
                   config_flags, CONFIG, config_writes, remote, fetch_i, results,
                   fetch_warnings, pos, GEOIP_MAP, loaded_count, insert_errors,
                   insert_warnings, entry_log, attached, ever_attached>>
    /\ UNCHANGED cidrVars

\* aya::Ebpf::load(..)? fails
LoadEbpfFail ==
    /\ pc = "load"
    /\ Fail("KernelLoadFailure")
    /\ UNCHANGED <<opt, target_countries, whitelist_mode, config_flags, CONFIG,
                   config_writes, remote, fetch_i, results, fetch_warnings, pos,
                   GEOIP_MAP, loaded_count, insert_errors, insert_warnings,
                   entry_log, attached, ever_attached>>
    /\ UNCHANGED cidrVars

\* config_flags is built and written to slot 0 of CONFIG
WriteConfig ==
    /\ pc = "write_config"
    /\ config_flags' = ConfigFlags(opt, target_countries, whitelist_mode)
    /\ CONFIG' = config_flags'
    /\ config_writes' = config_writes + 1
    /\ pc' = StepAfter("write_config", target_countries)
    /\ UNCHANGED <<opt, exit_error, target_countries, whitelist_mode, remote,
                   fetch_i, results, fetch_warnings, pos, GEOIP_MAP,
                   loaded_count, insert_errors, insert_warnings, entry_log,
                   attached, ever_attached>>
    /\ UNCHANGED cidrVars

\* ebpf.map_mut("CONFIG").unwrap().try_into()? or config_map.set(..)? fails
WriteConfigFail ==
    /\ pc = "write_config"
    /\ config_flags' = ConfigFlags(opt, target_countries, whitelist_mode)
    /\ Fail("MapError")
    /\ UNCHANGED <<opt, target_countries, whitelist_mode, CONFIG, config_writes,
                   remote, fetch_i, results, fetch_warnings, pos, GEOIP_MAP,
                   loaded_count, insert_errors, insert_warnings, entry_log,
                   attached, ever_attached>>
    /\ UNCHANGED cidrVars

---------------------------------------------------------------------------
(* fetch_multiple_geoip_data                                               *)

\* if results.is_empty() { bail!(..) }
FetchAllFailedMutNoCheck(res) == FALSE

FetchAllFailed(res) == res = <<>>

FetchRest == <<opt, exit_error, target_countries, whitelist_mode, config_flags,
               CONFIG, config_writes, remote, pos, GEOIP_MAP, loaded_count,
               insert_errors, insert_warnings, entry_log, attached,
               ever_attached>>

\* One turn of the loop over country_codes whose fetch_geoip_data returned
\* Ok: the document served for the lower-cased code, kept under the
\* upper-cased code.
FetchOk ==
    /\ pc = "fetch"
    /\ fetch_i < Len(target_countries)
    /\ LET code_upper == ToUpper(target_countries[fetch_i + 1])
           served     == remote[ToLower(code_upper)]
       IN  /\ served # Missing
           /\ results' = Append(results, <<code_upper, served>>)
    /\ fetch_i' = fetch_i + 1
    /\ UNCHANGED <<pc, fetch_warnings>>
    /\ UNCHANGED FetchRest
    /\ UNCHANGED cidrVars

\* One turn whose fetch_geoip_data returned Err (no such document, a
\* timeout, a transport or decoding error): warned, and the loop goes on.
FetchWarn ==
    /\ pc = "fetch"
    /\ fetch_i < Len(target_countries)
    /\ fetch_warnings' = fetch_warnings + 1
    /\ fetch_i' = fetch_i + 1
    /\ UNCHANGED <<pc, results>>
    /\ UNCHANGED FetchRest
    /\ UNCHANGED cidrVars

\* After the loop: no result at all ends main() with the error.
FetchFailed ==
    /\ pc = "fetch"
    /\ fetch_i = Len(target_countries)
    /\ FetchAllFailed(results)
    /\ Fail("FetchFailure")
    /\ UNCHANGED <<opt, target_countries, whitelist_mode, config_flags, CONFIG,
                   config_writes, remote, fetch_i, results, fetch_warnings, pos,
                   GEOIP_MAP, loaded_count, insert_errors, insert_warnings,
                   entry_log, attached, ever_attached>>
    /\ UNCHANGED cidrVars

\* After the loop: Ok(results); GEOIP_MAP is opened and the loader starts.
FetchDone ==
    /\ pc = "fetch"
    /\ fetch_i = Len(target_countries)
    /\ ~FetchAllFailed(results)
    /\ pc' = StepAfter("fetch", target_countries)
    /\ UNCHANGED <<fetch_i, results, fetch_warnings>>
    /\ UNCHANGED FetchRest
    /\ UNCHANGED cidrVars

\* ebpf.map_mut("GEOIP_MAP").unwrap().try_into()? fails
OpenGeoMapFail ==
    /\ pc = "fetch"
    /\ fetch_i = Len(target_countries)
    /\ ~FetchAllFailed(results)
    /\ Fail("MapError")
    /\ UNCHANGED <<opt, target_countries, whitelist_mode, config_flags, CONFIG,
                   config_writes, remote, fetch_i, results, fetch_warnings, pos,
                   GEOIP_MAP, loaded_count, insert_errors, insert_warnings,
                   entry_log, attached, ever_attached>>
    /\ UNCHANGED cidrVars

---------------------------------------------------------------------------
(* The loader: for (country_code, geo_data) / for rule / for cidr.         *)

RECURSIVE Normalize(_, _)
\* The position of the next entry at or after p = <<country, rule, cidr>>,
\* or <<Len(res) + 1, 1, 1>> when the loops are over.
Normalize(res, p) ==
    IF p[1] > Len(res) THEN <<Len(res) + 1, 1, 1>>
    ELSE IF p[2] > Len(res[p[1]][2].rules) THEN Normalize(res, <<p[1] + 1, 1, 1>>)
    ELSE IF p[3] > Len(res[p[1]][2].rules[p[2]].ip_cidr)
         THEN Normalize(res, <<p[1], p[2] + 1, 1>>)
    ELSE p

Cur == Normalize(results, pos)

AtEntry == pc = "populate" /\ Cur[1] <= Len(results)

EntryText == results[Cur[1]][2].rules[Cur[2]].ip_cidr[Cur[3]]

EntryCountry == results[Cur[1]][1]

\* u32::to_be: the bytes swapped on a little-endian host
ToBe(x, little) ==
    IF little
    THEN SubSeq(x, 25, 32) \o SubSeq(x, 17, 24) \o SubSeq(x, 9, 16) \o SubSeq(x, 1, 8)
    ELSE x

\* The bytes of a u32 in memory, lowest address first.
MemBytes(x, little) ==
    IF little THEN <<ByteOf(x, 3), ByteOf(x, 2), ByteOf(x, 1), ByteOf(x, 0)>>
    ELSE BytesOf(x)

\* Key::new(prefix_len, ip.to_be()); data is the key's address as it lies in
\* memory, which is what the trie matches against.
LpmKeyMutHostOrder(prefix_len, ip, little) ==
    [prefix_len |-> prefix_len, data |-> MemBytes(ip, little)]

LpmKey(prefix_len, ip, little) ==
    [prefix_len |-> prefix_len, data |-> MemBytes(ToBe(ip, little), little)]

\* if insert_errors < 5 { warn!(..) }
WarnsInsert(errors) == errors < 5

Advance == pos' = <<Cur[1], Cur[2], Cur[3] + 1>>

LoaderRest == <<pc, opt, exit_error, target_countries, whitelist_mode,
                config_flags, CONFIG, config_writes, remote, fetch_i, results,
                fetch_warnings, attached, ever_attached>>

\* parse_cidr_to_lpm returned None: the entry is passed over.
SkipEntry ==
    /\ AtEntry
    /\ parse_cidr_to_lpm(EntryText) = None
    /\ entry_log' = Append(entry_log, [country |-> EntryCountry, text |-> EntryText,
                                       outcome |-> "skipped"])
    /\ Advance
    /\ UNCHANGED <<GEOIP_MAP, loaded_count, insert_errors, insert_warnings>>
    /\ UNCHANGED LoaderRest
    /\ UNCHANGED cidrVars

\* geoip_map.insert(&key, 1, 0) returned Ok.  The host's byte order is
\* either one.
InsertOk ==
    /\ AtEntry
    /\ LET r == parse_cidr_to_lpm(EntryText)
       IN  /\ r.some
           /\ \E little \in BOOLEAN :
                LET key == LpmKey(r.val.len, r.val.ip, little)
                IN  /\ GEOIP_MAP' = (key :> 1) @@ GEOIP_MAP
                    /\ entry_log' = Append(entry_log,
                           [country |-> EntryCountry, text |-> EntryText,
                            outcome |-> "inserted", key |-> key, value |-> 1])
    /\ loaded_count' = loaded_count + 1
    /\ Advance
    /\ UNCHANGED <<insert_errors, insert_warnings>>
    /\ UNCHANGED LoaderRest
    /\ UNCHANGED cidrVars

\* geoip_map.insert(&key, 1, 0) returned Err: counted, warned about while
\* fewer than 5 were, and the loop goes on.
InsertFail ==
    /\ AtEntry
    /\ LET r == parse_cidr_to_lpm(EntryText)
       IN  /\ r.some
           /\ \E little \in BOOLEAN :
                LET key == LpmKey(r.val.len, r.val.ip, little)
                IN  entry_log' = Append(entry_log,
                        [country |-> EntryCountry, text |-> EntryText,
                         outcome |-> "failed", key |-> key, value |-> 1])
    /\ insert_warnings' = IF WarnsInsert(insert_errors) THEN insert_warnings + 1
                          ELSE insert_warnings
    /\ insert_errors' = insert_errors + 1
    /\ Advance
    /\ UNCHANGED <<GEOIP_MAP, loaded_count>>
    /\ UNCHANGED LoaderRest
    /\ UNCHANGED cidrVars

\* The loops are over: the counts are reported.
PopulateDone ==
    /\ pc = "populate"
    /\ Cur[1] > Len(results)
    /\ pc' = StepAfter("populate", target_countries)
    /\ pos' = Cur
    /\ UNCHANGED <<opt, exit_error, target_countries, whitelist_mode,
                   config_flags, CONFIG, config_writes, remote, fetch_i, results,
                   fetch_warnings, GEOIP_MAP, loaded_count, insert_errors,
                   insert_warnings, entry_log, attached, ever_attached>>
    /\ UNCHANGED cidrVars

---------------------------------------------------------------------------
(* Attach, steady state, shutdown.                                         *)

AttachRest == <<opt, target_countries, whitelist_mode, config_flags, CONFIG,
                config_writes, remote, fetch_i, results, fetch_warnings, pos,
                GEOIP_MAP, loaded_count, insert_errors, insert_warnings,
                entry_log>>

\* program.load()? and program.attach(&iface, xdp_flags)? succeeded
AttachOk ==
    /\ pc = "attach"
    /\ attached' = TRUE
    /\ ever_attached' = TRUE
    /\ pc' = StepAfter("attach", target_countries)
    /\ UNCHANGED exit_error
    /\ UNCHANGED AttachRest
    /\ UNCHANGED cidrVars

\* program.load()? or program.attach(..)? failed
AttachFail ==
    /\ pc = "attach"
    /\ Fail("AttachFailure")
    /\ UNCHANGED <<attached, ever_attached>>
    /\ UNCHANGED AttachRest
    /\ UNCHANGED cidrVars

\* ctrl_c.await returned: main() returns Ok(()) and the program, dropped
\* with ebpf, is detached.
Interrupt ==
    /\ pc = "running"
    /\ pc' = StepAfter("running", target_countries)
    /\ attached' = FALSE
    /\ UNCHANGED <<exit_error, ever_attached>>
    /\ UNCHANGED AttachRest
    /\ UNCHANGED cidrVars

Next ==
    \/ ParseArgsConflict \/ ParseArgs
    \/ LoadEbpf \/ LoadEbpfFail
    \/ WriteConfig \/ WriteConfigFail
    \/ FetchOk \/ FetchWarn \/ FetchFailed \/ FetchDone \/ OpenGeoMapFail
    \/ SkipEntry \/ InsertOk \/ InsertFail \/ PopulateDone
    \/ AttachOk \/ AttachFail \/ Interrupt

Init == InitMain(OptionSamples, AllWorlds)

InitRules == InitMain(AllOptions, WorldSamples)

\* The loader runs: a few toggle combinations, every repository.
Spec == Init /\ [][Next]_vars

\* The rule-compiler runs: every command line, one repository.
SpecRules == InitRules /\ [][Next]_vars

---------------------------------------------------------------------------
(* Properties.                                                             *)

ListsGiven(o) ==
    Cardinality({n \in {"countries", "allow_only_countries", "block_all_from"} :
                    o[n] # <<>>})

RECURSIVE FlattenRules(_, _)
\* The entries of a document's rules in loop order, tagged with the country.
FlattenRules(code, rules) ==
    IF rules = <<>> THEN <<>>
    ELSE [k \in 1..Len(Head(rules).ip_cidr) |->
             [country |-> code, text |-> Head(rules).ip_cidr[k]]]
         \o FlattenRules(code, Tail(rules))

RECURSIVE Flatten(_)
\* The entries of geo_data_list in loop order.
Flatten(res) ==
    IF res = <<>> THEN <<>>
    ELSE FlattenRules(Head(res)[1], Head(res)[2].rules) \o Flatten(Tail(res))

Attempted == {i \in DOMAIN entry_log : entry_log[i].outcome # "skipped"}

Inserted == {i \in DOMAIN entry_log : entry_log[i].outcome = "inserted"}

\* C1: with a block-all-from list and no allow-only list, the CONFIG word
\* written has GEOIP_ENABLED and BLOCK_ALL set and GEOIP_WHITELIST clear, and
\* the target countries are the block-all-from list, also when --block-all
\* was not given.
C1_BlockAllFromSetsBlockAll ==
    (config_writes = 1 /\ opt.block_all_from # <<>>
        /\ opt.allow_only_countries = <<>>) =>
        /\ RULE_GEOIP_ENABLED \in CONFIG
        /\ RULE_BLOCK_ALL \in CONFIG
        /\ RULE_GEOIP_WHITELIST \notin CONFIG
        /\ target_countries = opt.block_all_from

\* C2: whenever an accepted command line carries an allow-only list, the
\* CONFIG word written has GEOIP_ENABLED and GEOIP_WHITELIST set and the
\* target countries are the allow-only list, whatever else is given.
C2_AllowOnlyFirst ==
    (config_writes = 1 /\ opt.allow_only_countries # <<>>) =>
        /\ RULE_GEOIP_ENABLED \in CONFIG
        /\ RULE_GEOIP_WHITELIST \in CONFIG
        /\ target_countries = opt.allow_only_countries
        /\ \A i \in DOMAIN results :
               \E j \in DOMAIN opt.allow_only_countries :
                   results[i][1] = ToUpper(opt.allow_only_countries[j])

\* C3: a command line that gives two or more of the three country lists,
\* or both fet-strict and fet-loose, ends in a configuration error: CONFIG
\* is never written, GEOIP_MAP never inserted into, the program never
\* attached.
C3_ConflictsRejected ==
    (pc # "parse_args"
        /\ (ListsGiven(opt) >= 2 \/ (opt.block_fet_strict /\ opt.block_fet_loose))) =>
        /\ pc = "failed"
        /\ exit_error = "ConfigConflict"
        /\ config_writes = 0
        /\ CONFIG = {}
        /\ entry_log = <<>>
        /\ GEOIP_MAP = <<>>
        /\ ~ever_attached

\* C4: CONFIG is written once and every insert into GEOIP_MAP is made
\* before the program is attached; once it has been attached nothing writes
\* CONFIG or touches GEOIP_MAP; a run that failed while fetching or
\* populating never attached.
C4_TablesBeforeAttach ==
    /\ [](config_writes <= 1)
    /\ [](ever_attached => config_writes = 1 /\ CONFIG = config_flags)
    /\ []((ever_attached /\ target_countries # <<>>) =>
             /\ fetch_i = Len(target_countries)
             /\ Len(entry_log) = Len(Flatten(results)))
    /\ [](exit_error \in {"FetchFailure", "MapError"} => ~ever_attached)
    /\ [][ever_attached =>
             /\ CONFIG' = CONFIG
             /\ config_writes' = config_writes
             /\ GEOIP_MAP' = GEOIP_MAP
             /\ entry_log' = entry_log
             /\ loaded_count' = loaded_count
             /\ insert_errors' = insert_errors]_vars

\* A run that loaded a prefix, had an insert fail, attached and was
\* interrupted.
C4_Witness ==
    /\ pc = "exited"
    /\ ever_attached
    /\ ~attached
    /\ config_writes = 1
    /\ loaded_count >= 1
    /\ insert_errors >= 1

\* C5 as stated: with a geo gate configured, a run whose documents hold no
\* loadable CIDR, like one whose fetches all failed, never attaches.
C5_EmptySetFatal ==
    /\ (ever_attached /\ target_countries # <<>>) => Attempted # {}
    /\ exit_error = "FetchFailure" => results = <<>>

\* C5 as amended: with a geo gate configured, when the fetch of every
\* country failed the run ends with the fetch error and never attaches; a
\* run in which some fetch succeeded is not ended by the failed ones.
C5_AllFetchesFailedFatal ==
    /\ (target_countries # <<>> /\ fetch_i = Len(target_countries)
            /\ results = <<>>) =>
           /\ pc \in {"fetch", "failed"}
           /\ pc = "failed" => exit_error = "FetchFailure"
           /\ ~ever_attached
    /\ exit_error = "FetchFailure" =>
           /\ results = <<>>
           /\ fetch_warnings = Len(target_countries)
           /\ entry_log = <<>>
    /\ (results # <<>> /\ fetch_warnings > 0) => exit_error # "FetchFailure"
    /\ Len(results) + fetch_warnings = fetch_i

\* Both countries of the list failed to download and the run ended.
C5_Witness ==
    /\ pc = "failed"
    /\ exit_error = "FetchFailure"
    /\ Len(target_countries) = 2
    /\ fetch_warnings = 2
    /\ ~ever_attached

\* C7: an entry that is not of the form A.B.C.D/p is passed over (parse
\* returns None, nothing is inserted for it), and the entries after it are
\* still visited.
C7_MalformedEntriesSkipped ==
    /\ \A i \in DOMAIN entry_log :
           ~IsCidrForm(entry_log[i].text) => entry_log[i].outcome = "skipped"
    /\ (pc \in {"attach", "running", "exited"} /\ target_countries # <<>>) =>
           Len(entry_log) = Len(Flatten(results))

\* C8: the CONFIG word written never has both BLOCK_FET_STRICT and
\* BLOCK_FET_LOOSE, and has GEOIP_WHITELIST only with GEOIP_ENABLED.
C8_ConfigWordInvariants ==
    config_writes >= 1 =>
        /\ ~(RULE_BLOCK_FET_STRICT \in CONFIG /\ RULE_BLOCK_FET_LOOSE \in CONFIG)
        /\ RULE_GEOIP_WHITELIST \in CONFIG => RULE_GEOIP_ENABLED \in CONFIG

\* A whitelist configuration with fet-strict was written.
C8_Witness ==
    /\ config_writes = 1
    /\ RULE_GEOIP_WHITELIST \in CONFIG
    /\ RULE_BLOCK_FET_STRICT \in CONFIG

C10_InsertionAccounted ==
    LET flat == Flatten(results)
    IN  /\ Len(entry_log) <= Len(flat)
        /\ pc \in {"attach", "running", "exited"} /\ target_countries # <<>> =>
               Len(entry_log) = Len(flat)
        /\ \A i \in DOMAIN entry_log :
               LET e == entry_log[i]
                   r == parse_cidr_to_lpm(e.text)
               IN  /\ e.text = flat[i].text
                   /\ e.country = flat[i].country
                   /\ r.some <=> e.outcome # "skipped"
                   /\ r.some =>
                          /\ e.key.prefix_len = r.val.len
                          /\ e.key.data = BytesOf(r.val.ip)
                          /\ e.value = 1
        /\ loaded_count + insert_errors = Cardinality(Attempted)
        /\ loaded_count = Cardinality(Inserted)
        /\ insert_warnings = (IF insert_errors <= 5 THEN insert_errors ELSE 5)
        /\ DOMAIN GEOIP_MAP = {entry_log[i].key : i \in Inserted}
        /\ \A k \in DOMAIN GEOIP_MAP : GEOIP_MAP[k] = 1

\* Six inserts failed, five were warned about, and the loader finished.
C10_Witness ==
    /\ pc = "attach"
    /\ insert_errors = 6
    /\ insert_warnings = 5
    /\ Len(entry_log) = 6

=============================================================================
